---- MODULE Spec2Model ----
(***************************************************************************)
(* State-machine model of gimbal::GimbalSubsystem                          *)
(* (template-project/src/subsystems/gimbal/gimbal_subsystem.cpp).          *)
(*                                                                         *)
(* Angles are kept on an integer grid: one unit is 2*pi/M_TWOPI radians,   *)
(* so M_TWOPI units are one full turn and M_PI units a half turn.  Motor   *)
(* outputs and PID outputs are integers in the motor's output unit.        *)
(*                                                                         *)
(* The speed controller (SmoothPid), the motor drivers, the clock and the  *)
(* LEDs are external.  A run of a speed controller yields an output drawn  *)
(* from a sample set; what a call reads from the drivers and the clock is  *)
(* drawn from sample sets too.  The sample sets of one run are those of    *)
(* its scenario, fixed at construction: one scenario exercises the yaw     *)
(* axis in detail, one the pitch axis, one both axes together, one the     *)
(* clock.                                                                  *)
(*                                                                         *)
(* yawError, pitchError, yawMotorOutput and pitchMotorOutput are assigned  *)
(* before they are read in every cycle, so no call depends on the values   *)
(* an earlier call left in them.  The model keeps them, with what else a   *)
(* call read and did, in lastCall: the record of the most recent call.     *)
(***************************************************************************)
EXTENDS Integers, Sequences, FiniteSets, TLC

\* ------------------------------------------------------------ constants

\* One full turn, in grid units (M_TWOPI of <cmath>).
M_TWOPI == 8

\* Half a turn.
M_PI == M_TWOPI \div 2

\* Encoder counts per revolution (tap::motor::DjiMotor::ENC_RESOLUTION),
\* scaled down; one count is M_TWOPI / ENC_RESOLUTION grid units.
ENC_RESOLUTION == 4

\* The millisecond clock and timeError are uint32_t: their arithmetic is
\* modulo 2^32, scaled down here to modulo CLOCK_MODULUS.
CLOCK_MODULUS == 16

\* constants.* of the gimbal constants header.
MAX_YAW_ERROR == M_PI

YAW_MINIMUM_RADS == 2

PITCH_MINIMUM_RADS == 2

YAW_SCALE == 2

PITCH_SCALE == 3

MAX_YAW_SPEED == 3

MIN_YAW_SPEED == 2

MAX_PITCH_SPEED == 3

MIN_PITCH_SPEED == 2

GRAVITY_COMPENSATION_SCALAR == 2

LEVEL_ANGLE == 0

\* In-class initialiser of inputsFound (the constructor does not set it).
inputsFoundDefault == FALSE

\* --------------------------------------------------------------- bounds

\* Largest stick deflection handed to controllerInput().
MaxStick == 1

\* How far beyond one full turn a vision offset may lie.
MaxOver == 1

\* Largest magnitude the speed controller's output takes.
PidMax == 4

\* controllerInput() is not called once a target would leave this range.
TargetCap == M_TWOPI + MaxOver

\* An axis studied in detail.
RichYaw ==
    [encoder |-> 0 .. (ENC_RESOLUTION - 1),
     startEncoder |-> {ENC_RESOLUTION \div 2},
     offsets |-> {-(M_TWOPI + MaxOver), -3, 1, M_TWOPI + MaxOver},
     sticks |-> -MaxStick .. MaxStick,
     pid |-> {-PidMax, -1, MAX_YAW_SPEED},
     online |-> BOOLEAN,
     rpm |-> {0, 60}]

RichPitch ==
    [encoder |-> {0, 1},
     startEncoder |-> {1},
     offsets |-> {-(M_TWOPI + MaxOver), 0, 2, M_TWOPI + MaxOver},
     sticks |-> -MaxStick .. MaxStick,
     pid |-> {-PidMax, -1, MAX_PITCH_SPEED},
     online |-> BOOLEAN,
     rpm |-> {0, 60}]

\* An axis in the background of a scenario about the other one.
QuietAxis ==
    [encoder |-> {1},
     startEncoder |-> {1},
     offsets |-> {0},
     sticks |-> {0},
     pid |-> {-1},
     online |-> BOOLEAN,
     rpm |-> {60}]

\* Both axes at once, each on few samples.
CoarseAxis ==
    [encoder |-> {0, ENC_RESOLUTION - 1},
     startEncoder |-> {1},
     offsets |-> {-3, M_TWOPI + MaxOver},
     sticks |-> {MaxStick},
     pid |-> {-PidMax, MAX_YAW_SPEED},
     online |-> BOOLEAN,
     rpm |-> {60}]

Scenarios ==
    {[name |-> "yaw", yaw |-> RichYaw, pitch |-> QuietAxis, clock |-> {7}],
     [name |-> "pitch", yaw |-> QuietAxis, pitch |-> RichPitch,
      clock |-> {7}],
     [name |-> "both", yaw |-> CoarseAxis, pitch |-> CoarseAxis,
      clock |-> {7}],
     [name |-> "clock", yaw |-> QuietAxis, pitch |-> QuietAxis,
      clock |-> {0, 7, CLOCK_MODULUS - 1}]}

\* Marks an encoder that a call did not read.
NotRead == 0 - 1

\* An optional value: None, or Some(v).
None == <<>>

Some(v) == <<v>>

\* ---------------------------------------------------------------- state

VARIABLES
    phase,                  \* "constructed" until initialize() has run
    scenario,               \* the sample sets of this run
    inputsFound,
    currentYaw, currentPitch,
    targetYaw, targetPitch,
    startingYaw, startingPitch,
    currentYawMotorSpeed, currentPitchMotorSpeed,
    yawDesiredOutput, pitchDesiredOutput, \* last setDesiredOutput() per motor
    ledA, ledH,
    pastTime, timeError,
    lastCall,               \* the most recent public call: what it read,
                            \* computed and sent
    prevKind,               \* how the call before it relates to lastCall
    inputSinceNoInputs,     \* controllerInput() or cvInput() has been called
                            \* since the last noInputs(), or since
                            \* construction if there was none
    oneBack, twoBack        \* <<targetYaw, targetPitch>> before the last
                            \* controllerInput(), and before two equal ones

yawVars == <<currentYaw, currentYawMotorSpeed, yawDesiredOutput>>

pitchVars == <<currentPitch, currentPitchMotorSpeed, pitchDesiredOutput>>

histVars == <<lastCall, prevKind, inputSinceNoInputs, oneBack, twoBack>>

vars == <<phase, scenario, inputsFound, targetYaw, targetPitch, startingYaw,
          startingPitch, ledA, ledH, pastTime, timeError, yawVars,
          pitchVars, histVars>>

\* ------------------------------------------------------- pure functions

Abs(x) == IF x < 0 THEN -x ELSE x

limitVal(val, min, max) ==
    IF val < min THEN min ELSE IF val > max THEN max ELSE val

\* Mutant of wrappedEncoderValueToRadians: the divisor is the largest
\* encoder value, not the number of encoder values.
wrappedEncoderValueToRadiansOffByOne(encoderValue) ==
    (M_TWOPI * encoderValue) \div (ENC_RESOLUTION - 1)

wrappedEncoderValueToRadians(encoderValue) ==
    (M_TWOPI * encoderValue) \div ENC_RESOLUTION

\* Mutant of WrapYawError: only the upper wrap is corrected.
WrapYawErrorOneSided(err) ==
    IF err > MAX_YAW_ERROR THEN err - M_TWOPI ELSE err

\* The wrap correction of updateYawPid().
WrapYawError(err) ==
    IF err > MAX_YAW_ERROR THEN err - M_TWOPI
    ELSE IF err < -MAX_YAW_ERROR THEN err + M_TWOPI
    ELSE err

\* Whether x lies strictly inside a dead-band of half-width w.
InsideBand(x, w) == -w < x /\ x < w

\* 1000 * cos of an angle of a grid units, |a| <= M_PI, on a grid of pi/4.
CosMilli(a) ==
    LET q == (Abs(a) * 4) \div M_PI
    IN  CASE q = 0 -> 1000
          [] q = 1 -> 707
          [] q = 2 -> 0
          [] q = 3 -> -707
          [] OTHER -> -1000

\* gravityCompensation(), rounded towards zero to the output unit.
gravityCompensation(pitch) ==
    LET limitAngle == limitVal(pitch - LEVEL_ANGLE, -M_PI, M_PI)
        milli == GRAVITY_COMPENSATION_SCALAR * CosMilli(limitAngle)
    IN  IF milli < 0 THEN -((-milli) \div 1000) ELSE milli \div 1000

\* What a cycle leaves of an axis whose loop does not run.
Idle(current, speed) ==
    [ran |-> FALSE, current |-> current, speed |-> speed, encoder |-> NotRead,
     error |-> None, pidRan |-> FALSE, pid |-> None, output |-> None,
     sent |-> None]

\* Mutant of updateYawPid: no dead-zone on the error, the speed controller
\* runs on every error.
updateYawPidNoDeadZone(target, current, pid) ==
    LET yawError == WrapYawError(target - current)
        limited == limitVal(pid, -MAX_YAW_SPEED, MAX_YAW_SPEED)
        yawMotorOutput == IF InsideBand(limited, MIN_YAW_SPEED)
                             THEN 0 ELSE limited
    IN  [error |-> Some(yawError), pidRan |-> TRUE, pid |-> Some(pid),
         output |-> Some(yawMotorOutput), sent |-> None]

\* updateYawPid() with currentYaw re-read as `current`; `pid` is the output
\* of the speed controller should it run.  The result names the error, the
\* output and the value sent to the motor, if any.
updateYawPid(target, current, pid) ==
    LET yawError == WrapYawError(target - current)
    IN  IF InsideBand(yawError, YAW_MINIMUM_RADS)
           THEN [error |-> Some(yawError), pidRan |-> FALSE, pid |-> None,
                 output |-> None, sent |-> Some(0)]
           ELSE LET limited == limitVal(pid, -MAX_YAW_SPEED, MAX_YAW_SPEED)
                    yawMotorOutput ==
                        IF InsideBand(limited, MIN_YAW_SPEED)
                           THEN 0 ELSE limited
                IN  [error |-> Some(yawError), pidRan |-> TRUE,
                     pid |-> Some(pid),
                     output |-> Some(yawMotorOutput), sent |-> None]

\* Mutant of updatePitchPid: the gravity term is left out of the command.
updatePitchPidNoGravity(target, current, pid) ==
    LET pitchError == target - current
        limited ==
            IF InsideBand(pitchError, PITCH_MINIMUM_RADS)
               THEN 0
               ELSE limitVal(pid, -MAX_PITCH_SPEED, MAX_PITCH_SPEED)
    IN  IF InsideBand(limited, MIN_PITCH_SPEED)
           THEN [error |-> Some(pitchError), pidRan |-> TRUE,
                 pid |-> Some(pid), output |-> Some(0), sent |-> None]
           ELSE [error |-> Some(pitchError), pidRan |-> TRUE,
                 pid |-> Some(pid),
                 output |-> Some(limited), sent |-> Some(limited)]

\* updatePitchPid() with currentPitch re-read as `current`.
updatePitchPid(target, current, pid) ==
    LET pitchError == target - current
        limited ==
            IF InsideBand(pitchError, PITCH_MINIMUM_RADS)
               THEN 0
               ELSE limitVal(pid, -MAX_PITCH_SPEED, MAX_PITCH_SPEED)
        withGravity == limited + gravityCompensation(current)
    IN  IF InsideBand(withGravity, MIN_PITCH_SPEED)
           THEN [error |-> Some(pitchError), pidRan |-> TRUE,
                 pid |-> Some(pid), output |-> Some(0), sent |-> None]
           ELSE [error |-> Some(pitchError), pidRan |-> TRUE,
                 pid |-> Some(pid),
                 output |-> Some(withGravity), sent |-> Some(withGravity)]

\* The yaw half of refresh()'s inputsFound branch.
RefreshYaw(online, rpm, enc, pid) ==
    IF online
       THEN LET current == wrappedEncoderValueToRadians(enc)
                u == updateYawPid(targetYaw, current, pid)
            IN  [ran |-> TRUE, current |-> current, speed |-> rpm,
                 encoder |-> enc, error |-> u.error, pidRan |-> u.pidRan,
                 pid |-> u.pid, output |-> u.output, sent |-> u.sent]
       ELSE Idle(currentYaw, currentYawMotorSpeed)

\* Mutant of RefreshPitch: the loop runs on the angle of the cycle before,
\* the encoder is not read again.
RefreshPitchStale(online, rpm, enc, pid) ==
    IF online
       THEN LET u == updatePitchPid(targetPitch, currentPitch, pid)
            IN  [ran |-> TRUE, current |-> currentPitch, speed |-> rpm,
                 encoder |-> enc, error |-> u.error, pidRan |-> u.pidRan,
                 pid |-> u.pid, output |-> u.output, sent |-> u.sent]
       ELSE Idle(currentPitch, currentPitchMotorSpeed)

\* The pitch half of refresh()'s inputsFound branch.
RefreshPitch(online, rpm, enc, pid) ==
    IF online
       THEN LET current == wrappedEncoderValueToRadians(enc)
                u == updatePitchPid(targetPitch, current, pid)
            IN  [ran |-> TRUE, current |-> current, speed |-> rpm,
                 encoder |-> enc, error |-> u.error, pidRan |-> u.pidRan,
                 pid |-> u.pid, output |-> u.output, sent |-> u.sent]
       ELSE Idle(currentPitch, currentPitchMotorSpeed)

\* ------------------------------------------------------------- history

Call(op, a, b, yOn, pOn, y, p) ==
    [op |-> op, yawInput |-> a, pitchInput |-> b,
     yawOnline |-> yOn, pitchOnline |-> pOn, yaw |-> y, pitch |-> p,
     moved |-> FALSE]

\* What a call that runs no control loop leaves in its record of an axis.
NoLoop(sent) ==
    [ran |-> FALSE, encoder |-> NotRead, error |-> None, pidRan |-> FALSE,
     pid |-> None, output |-> None, sent |-> sent]

PlainCall(op, a, b) ==
    Call(op, a, b, FALSE, FALSE, NoLoop(None), NoLoop(None))

\* The record of an axis in a refresh().
LoopRecord(r) ==
    [ran |-> r.ran, encoder |-> r.encoder, error |-> r.error,
     pidRan |-> r.pidRan, pid |-> r.pid, output |-> r.output,
     sent |-> r.sent]

\* History kept by every call: the call, how the call before relates to
\* it and, for a run of controllerInput() calls, the targets as they were
\* before the last call (oneBack) and before two equal calls in a row
\* (twoBack).  After any other call both hold the targets it left.
NoteCall(call) ==
    /\ lastCall' = [call EXCEPT !.moved =
                        <<targetYaw', targetPitch'>> # <<targetYaw, targetPitch>>]
    /\ prevKind' = IF [lastCall EXCEPT !.moved = FALSE] = call THEN "same"
                   ELSE IF lastCall.op \in {"noInputs", "initialize"}
                           THEN lastCall.op
                   ELSE "other"
    /\ inputSinceNoInputs' =
           CASE call.op \in {"controllerInput", "cvInput"} -> TRUE
             [] call.op = "noInputs" -> FALSE
             [] OTHER -> inputSinceNoInputs
    /\ oneBack' = IF call.op = "controllerInput"
                     THEN <<targetYaw, targetPitch>>
                     ELSE <<targetYaw', targetPitch'>>
    /\ twoBack' = IF call.op = "controllerInput"
                     THEN IF [lastCall EXCEPT !.moved = FALSE] = call
                             THEN oneBack
                             ELSE <<targetYaw, targetPitch>>
                     ELSE <<targetYaw', targetPitch'>>

\* ------------------------------------------------------------- actions

\* setYawAngle() / setPitchAngle() of the class header.
setYawAngle(angle) == targetYaw' = angle

setPitchAngle(angle) == targetPitch' = angle

Init ==
    /\ phase = "constructed"
    /\ scenario \in Scenarios
    /\ inputsFound = inputsFoundDefault
    /\ targetYaw = 0 /\ targetPitch = 0
    /\ currentYawMotorSpeed = 0 /\ currentPitchMotorSpeed = 0
    /\ currentYaw = 0 /\ currentPitch = 0
    /\ startingYaw = 0 /\ startingPitch = 0
    /\ yawDesiredOutput = 0 /\ pitchDesiredOutput = 0
    /\ ledA = FALSE /\ ledH = FALSE
    /\ pastTime = 0 /\ timeError = 0
    /\ lastCall = PlainCall("constructor", 0, 0)
    /\ prevKind = "other"
    /\ inputSinceNoInputs = FALSE
    /\ oneBack = <<0, 0>> /\ twoBack = <<0, 0>>

\* Mutant of initialize: the targets are left as the constructor set them.
initializeNoTarget(now, yawEnc, pitchEnc) ==
    /\ phase = "constructed"
    /\ phase' = "running"
    /\ pastTime' = now
    /\ yawDesiredOutput' = 0
    /\ pitchDesiredOutput' = 0
    /\ startingPitch' = wrappedEncoderValueToRadians(pitchEnc)
    /\ startingYaw' = wrappedEncoderValueToRadians(yawEnc)
    /\ currentYaw' = startingYaw'
    /\ currentPitch' = startingPitch'
    /\ UNCHANGED <<scenario, inputsFound, currentYawMotorSpeed,
                   currentPitchMotorSpeed, ledA, ledH, timeError,
                   targetYaw, targetPitch>>
    /\ NoteCall(Call("initialize", 0, 0, FALSE, FALSE,
                     [NoLoop(Some(0)) EXCEPT !.encoder = yawEnc],
                     [NoLoop(Some(0)) EXCEPT !.encoder = pitchEnc]))

initialize(now, yawEnc, pitchEnc) ==
    /\ phase = "constructed"
    /\ phase' = "running"
    /\ pastTime' = now
    /\ yawDesiredOutput' = 0
    /\ pitchDesiredOutput' = 0
    /\ startingPitch' = wrappedEncoderValueToRadians(pitchEnc)
    /\ startingYaw' = wrappedEncoderValueToRadians(yawEnc)
    /\ currentYaw' = startingYaw'
    /\ currentPitch' = startingPitch'
    /\ targetYaw' = startingYaw'
    /\ targetPitch' = startingPitch'
    /\ UNCHANGED <<scenario, inputsFound, currentYawMotorSpeed,
                   currentPitchMotorSpeed, ledA, ledH, timeError>>
    /\ NoteCall(Call("initialize", 0, 0, FALSE, FALSE,
                     [NoLoop(Some(0)) EXCEPT !.encoder = yawEnc],
                     [NoLoop(Some(0)) EXCEPT !.encoder = pitchEnc]))

\* Mutant of LockTargets: the yaw target is left where it was.
LockTargetsPitchOnly ==
    /\ targetPitch' = currentPitch
    /\ UNCHANGED <<targetYaw, startingYaw, startingPitch, yawVars, pitchVars>>

\* Mutant of LockTargets: the two axes are crossed.
LockTargetsSwapped ==
    /\ targetPitch' = currentYaw
    /\ targetYaw' = currentPitch
    /\ UNCHANGED <<startingYaw, startingPitch, yawVars, pitchVars>>

\* Mutant of LockTargets: locking also moves the calibration reference.
LockTargetsRecalibrate ==
    /\ targetPitch' = currentPitch
    /\ targetYaw' = currentYaw
    /\ startingPitch' = currentPitch
    /\ startingYaw' = currentYaw
    /\ UNCHANGED <<yawVars, pitchVars>>

\* Mutant of LockTargets: locking also clears the measured speeds.
LockTargetsClearSpeeds ==
    /\ targetPitch' = currentPitch
    /\ targetYaw' = currentYaw
    /\ currentYawMotorSpeed' = 0
    /\ currentPitchMotorSpeed' = 0
    /\ UNCHANGED <<startingYaw, startingPitch, currentYaw, currentPitch,
                   yawDesiredOutput, pitchDesiredOutput>>

\* refresh()'s else branch: no inputs, lock the gimbal.
LockTargets ==
    /\ targetPitch' = currentPitch
    /\ targetYaw' = currentYaw
    /\ UNCHANGED <<startingYaw, startingPitch, yawVars, pitchVars>>

\* yawOnline() / pitchOnline() of the class header, given what the motor
\* driver reports.
yawOnline(motorOnline) == motorOnline

pitchOnline(motorOnline) == motorOnline

\* Mutant of SetLeds: the two indicators are crossed.
SetLedsSwapped(yawOn, pitchOn) ==
    /\ ledA' = ~pitchOnline(pitchOn)
    /\ ledH' = ~yawOnline(yawOn)

\* refresh()'s two leds.set() calls: an indicator is lit while its motor
\* is offline.
SetLeds(yawOn, pitchOn) ==
    /\ ledA' = ~yawOnline(yawOn)
    /\ ledH' = ~pitchOnline(pitchOn)

\* The value a motor holds after a call that sent it `sent`, if anything.
Commanded(old, sent) == IF sent = None THEN old ELSE sent[1]

\* refresh(), reading `now` from the clock, the online flags from the
\* drivers and, for an axis whose loop runs, y or p: <<rpm, encoder, pid>>.
refresh(now, yawOn, pitchOn, y, p) ==
    /\ phase = "running"
    /\ timeError' = (now - pastTime) % CLOCK_MODULUS
    /\ pastTime' = now
    /\ SetLeds(yawOn, pitchOn)
    /\ IF inputsFound
          THEN LET ry == RefreshYaw(yawOn, y[1], y[2], y[3])
                   rp == RefreshPitch(pitchOn, p[1], p[2], p[3])
               IN  /\ currentYawMotorSpeed' = ry.speed
                   /\ currentYaw' = ry.current
                   /\ yawDesiredOutput' = Commanded(yawDesiredOutput, ry.sent)
                   /\ currentPitchMotorSpeed' = rp.speed
                   /\ currentPitch' = rp.current
                   /\ pitchDesiredOutput' =
                          Commanded(pitchDesiredOutput, rp.sent)
                   /\ UNCHANGED <<targetYaw, targetPitch, startingYaw,
                                  startingPitch>>
                   /\ NoteCall(Call("refresh", 0, 0, yawOn, pitchOn,
                                    LoopRecord(ry), LoopRecord(rp)))
          ELSE /\ LockTargets
               /\ NoteCall(Call("refresh", 0, 0, yawOn, pitchOn,
                                NoLoop(None), NoLoop(None)))
    /\ UNCHANGED <<phase, scenario, inputsFound>>

\* Mutant of controllerInput: the stick moves the target from the current
\* angle, not from the target before.
controllerInputFromCurrent(yawInput, pitchInput) ==
    /\ phase = "running"
    /\ Abs(currentYaw + yawInput * YAW_SCALE) <= TargetCap
    /\ Abs(currentPitch + pitchInput * PITCH_SCALE) <= TargetCap
    /\ setYawAngle(currentYaw + (yawInput * YAW_SCALE))
    /\ setPitchAngle(currentPitch + (pitchInput * PITCH_SCALE))
    /\ inputsFound' = TRUE
    /\ UNCHANGED <<phase, scenario, startingYaw, startingPitch, ledA, ledH,
                   pastTime, timeError, yawVars, pitchVars>>
    /\ NoteCall(PlainCall("controllerInput", yawInput, pitchInput))

controllerInput(yawInput, pitchInput) ==
    /\ phase = "running"
    /\ Abs(targetYaw + yawInput * YAW_SCALE) <= TargetCap
    /\ Abs(targetPitch + pitchInput * PITCH_SCALE) <= TargetCap
    /\ setYawAngle(targetYaw + (yawInput * YAW_SCALE))
    /\ setPitchAngle(targetPitch + (pitchInput * PITCH_SCALE))
    /\ inputsFound' = TRUE
    /\ UNCHANGED <<phase, scenario, startingYaw, startingPitch, ledA, ledH,
                   pastTime, timeError, yawVars, pitchVars>>
    /\ NoteCall(PlainCall("controllerInput", yawInput, pitchInput))

\* Mutant of cvInput: the call does not mark the input as found.
cvInputNoFlag(yawInput, pitchInput) ==
    /\ phase = "running"
    /\ setYawAngle(currentYaw + limitVal(yawInput, -M_TWOPI, M_TWOPI))
    /\ setPitchAngle(currentPitch + limitVal(pitchInput, -M_TWOPI, M_TWOPI))
    /\ UNCHANGED <<phase, scenario, inputsFound, startingYaw, startingPitch,
                   ledA, ledH, pastTime, timeError, yawVars, pitchVars>>
    /\ NoteCall(PlainCall("cvInput", yawInput, pitchInput))

\* Mutant of cvInput: the offset is added to the target, not to the
\* current angle.
cvInputOntoTarget(yawInput, pitchInput) ==
    /\ phase = "running"
    /\ Abs(targetYaw) <= TargetCap /\ Abs(targetPitch) <= TargetCap
    /\ setYawAngle(targetYaw + limitVal(yawInput, -M_TWOPI, M_TWOPI))
    /\ setPitchAngle(targetPitch + limitVal(pitchInput, -M_TWOPI, M_TWOPI))
    /\ inputsFound' = TRUE
    /\ UNCHANGED <<phase, scenario, startingYaw, startingPitch, ledA, ledH,
                   pastTime, timeError, yawVars, pitchVars>>
    /\ NoteCall(PlainCall("cvInput", yawInput, pitchInput))

cvInput(yawInput, pitchInput) ==
    /\ phase = "running"
    /\ setYawAngle(currentYaw + limitVal(yawInput, -M_TWOPI, M_TWOPI))
    /\ setPitchAngle(currentPitch + limitVal(pitchInput, -M_TWOPI, M_TWOPI))
    /\ inputsFound' = TRUE
    /\ UNCHANGED <<phase, scenario, startingYaw, startingPitch, ledA, ledH,
                   pastTime, timeError, yawVars, pitchVars>>
    /\ NoteCall(PlainCall("cvInput", yawInput, pitchInput))

\* Mutant of noInputs: only the yaw motor is zeroed.
noInputsYawOnly ==
    /\ phase = "running"
    /\ inputsFound' = FALSE
    /\ yawDesiredOutput' = 0
    /\ UNCHANGED <<phase, scenario, targetYaw, targetPitch, startingYaw,
                   startingPitch, ledA, ledH, pastTime, timeError,
                   currentYaw, currentYawMotorSpeed, currentPitch,
                   currentPitchMotorSpeed, pitchDesiredOutput>>
    /\ NoteCall(Call("noInputs", 0, 0, FALSE, FALSE,
                     NoLoop(Some(0)), NoLoop(None)))

noInputs ==
    /\ phase = "running"
    /\ inputsFound' = FALSE
    /\ pitchDesiredOutput' = 0
    /\ yawDesiredOutput' = 0
    /\ UNCHANGED <<phase, scenario, targetYaw, targetPitch, startingYaw,
                   startingPitch, ledA, ledH, pastTime, timeError,
                   currentYaw, currentYawMotorSpeed, currentPitch,
                   currentPitchMotorSpeed>>
    /\ NoteCall(Call("noInputs", 0, 0, FALSE, FALSE,
                     NoLoop(Some(0)), NoLoop(Some(0))))

\* What refresh() reads of an axis: its speed and encoder and a controller
\* output, when the axis's loop runs.
Reads(axis, online) ==
    IF inputsFound /\ online
       THEN axis.rpm \X axis.encoder \X axis.pid
       ELSE {<<0, NotRead, 0>>}

Initialize ==
    \E now \in scenario.clock, yawEnc \in scenario.yaw.startEncoder,
       pitchEnc \in scenario.pitch.startEncoder :
        initialize(now, yawEnc, pitchEnc)

Refresh ==
    \E now \in scenario.clock, yawOn \in scenario.yaw.online,
       pitchOn \in scenario.pitch.online :
        \E y \in Reads(scenario.yaw, yawOn),
           p \in Reads(scenario.pitch, pitchOn) :
            refresh(now, yawOn, pitchOn, y, p)

ControllerInput ==
    \E yawInput \in scenario.yaw.sticks, pitchInput \in scenario.pitch.sticks :
        controllerInput(yawInput, pitchInput)

CvInput ==
    \E yawInput \in scenario.yaw.offsets,
       pitchInput \in scenario.pitch.offsets :
        cvInput(yawInput, pitchInput)

NoInputs == noInputs

Next == Initialize \/ Refresh \/ ControllerInput \/ CvInput \/ NoInputs

Spec == Init /\ [][Next]_vars

\* --------------------------------------------------------------- claims

Running == phase = "running"

Targets == <<targetYaw, targetPitch>>

\* A step that is a call of refresh().
RefreshStep == lastCall'.op = "refresh" /\ vars' # vars

\* C1: once initialize() has run, whenever inputsFound is false the value
\* last commanded to the yaw motor and the value last commanded to the
\* pitch motor are both zero.
C1_NoInputZeroCommands ==
    (Running /\ ~inputsFound) =>
        (yawDesiredOutput = 0 /\ pitchDesiredOutput = 0)

\* noInputs() has just withdrawn the input after a pitch loop ran.
C1_Witness ==
    /\ Running /\ ~inputsFound
    /\ lastCall.op = "noInputs"
    /\ currentPitchMotorSpeed # 0
    /\ targetPitch # currentPitch

\* C2: at the end of a refresh() in which an axis's motor reported
\* offline, the value last commanded to that motor is zero.
C2_OfflineZeroCommand ==
    lastCall.op = "refresh" =>
        /\ ~lastCall.yawOnline => yawDesiredOutput = 0
        /\ ~lastCall.pitchOnline => pitchDesiredOutput = 0

\* C3: after noInputs() followed by refresh(), whatever the motors report,
\* each target equals the current angle of its axis and the last command
\* sent to each motor is zero.
C3_NoInputsThenRefresh ==
    (lastCall.op = "refresh" /\ prevKind = "noInputs") =>
        /\ targetYaw = currentYaw
        /\ targetPitch = currentPitch
        /\ yawDesiredOutput = 0
        /\ pitchDesiredOutput = 0

\* refresh() after noInputs() moved a target, with the yaw motor offline.
C3_Witness ==
    /\ lastCall.op = "refresh" /\ prevKind = "noInputs"
    /\ ~lastCall.yawOnline /\ lastCall.pitchOnline
    /\ lastCall.moved

\* What C4 says of a refresh() in which the yaw motor reported offline.
YawIsolated ==
    /\ currentYaw' = currentYaw
    /\ targetYaw' = targetYaw
    /\ lastCall'.pitchOnline =>
           /\ lastCall'.pitch.ran
           /\ lastCall'.pitch.pidRan
           /\ currentPitch' =
                  wrappedEncoderValueToRadians(lastCall'.pitch.encoder)

\* C4 as stated: in every refresh() in which the yaw motor reports offline,
\* currentYaw and targetYaw keep their values, while currentPitch is
\* re-read and the pitch loop runs if the pitch motor is online.
C4_Original ==
    [][(RefreshStep /\ ~lastCall'.yawOnline) => YawIsolated]_vars

\* C4 as amended: the same, of every refresh() made while inputsFound is
\* true.
C4_OfflineIsolation ==
    [][(RefreshStep /\ inputsFound /\ ~lastCall'.yawOnline) => YawIsolated]_vars

\* refresh() with input, the yaw motor offline and the pitch motor online,
\* has re-read the pitch encoder away from the target.
C4_Witness ==
    /\ lastCall.op = "refresh" /\ inputsFound
    /\ ~lastCall.yawOnline /\ lastCall.pitchOnline
    /\ lastCall.pitch.ran
    /\ currentPitch # targetPitch
    /\ currentYaw # targetYaw

\* C5 as stated: while inputsFound is false, no operation that leaves it
\* false (refresh() in particular) changes targetYaw or targetPitch.
C5_Original ==
    [][(Running /\ ~inputsFound /\ ~inputsFound') => Targets' = Targets]_vars

\* C5 as amended: while inputsFound is false, an operation that leaves it
\* false changes a target only if it is refresh(), which sets each target
\* to the current angle of its axis and leaves the current angles alone;
\* so the targets are frozen once they equal the current angles.
C5_FrozenOnceLocked ==
    [][(Running /\ ~inputsFound /\ ~inputsFound') =>
          IF RefreshStep
             THEN /\ targetYaw' = currentYaw
                  /\ targetPitch' = currentPitch
                  /\ currentYaw' = currentYaw
                  /\ currentPitch' = currentPitch
             ELSE Targets' = Targets]_vars

\* A refresh() without input has moved the yaw target to the current angle.
C5_Witness ==
    /\ lastCall.op = "refresh" /\ ~inputsFound
    /\ lastCall.moved
    /\ targetYaw = currentYaw
    /\ targetYaw # startingYaw

\* C6: once initialize() has run, currentYaw and targetYaw both lie in
\* (-2*pi, 2*pi].
C6_YawWithinTwoTurns ==
    Running =>
        /\ -M_TWOPI < currentYaw /\ currentYaw <= M_TWOPI
        /\ -M_TWOPI < targetYaw /\ targetYaw <= M_TWOPI

\* C7: when currentYaw and targetYaw are in [0, 2*pi), the yaw error that
\* updateYawPid() works with after its wrap correction has magnitude at
\* most MAX_YAW_ERROR and differs from targetYaw - currentYaw by a whole
\* number of turns: it is the shorter signed way round.
C7_WrapCorrectness ==
    (/\ lastCall.op = "refresh" /\ lastCall.yaw.ran
     /\ currentYaw \in 0 .. (M_TWOPI - 1)
     /\ targetYaw \in 0 .. (M_TWOPI - 1)) =>
        LET e == lastCall.yaw.error[1]
        IN  /\ Abs(e) <= MAX_YAW_ERROR
            /\ (e - (targetYaw - currentYaw)) % M_TWOPI = 0
            /\ \A k \in -2 .. 2 :
                   Abs(e) <= Abs(targetYaw - currentYaw + k * M_TWOPI)

\* The yaw loop ran on a raw error below -MAX_YAW_ERROR and added a turn.
C7_Witness ==
    /\ lastCall.op = "refresh" /\ lastCall.yaw.ran
    /\ currentYaw \in 0 .. (M_TWOPI - 1)
    /\ targetYaw \in 0 .. (M_TWOPI - 1)
    /\ targetYaw - currentYaw < -MAX_YAW_ERROR
    /\ lastCall.yaw.error = Some(targetYaw - currentYaw + M_TWOPI)

\* C8: two controllerInput(d, 0) calls in a row with the same d leave
\* targetYaw at its value before the first call plus 2 * d * YAW_SCALE, and
\* targetPitch as it was.
C8_ManualAccumulation ==
    (/\ lastCall.op = "controllerInput" /\ prevKind = "same"
     /\ lastCall.pitchInput = 0) =>
        /\ targetYaw = twoBack[1] + 2 * lastCall.yawInput * YAW_SCALE
        /\ targetPitch = twoBack[2]

\* Two equal controllerInput(d, 0) calls, d # 0, made when the target was
\* away from the current angle.
C8_Witness ==
    /\ lastCall.op = "controllerInput" /\ prevKind = "same"
    /\ lastCall.pitchInput = 0 /\ lastCall.yawInput # 0
    /\ twoBack[1] # currentYaw
    /\ targetYaw = twoBack[1] + 2 * lastCall.yawInput * YAW_SCALE

\* A step that is a call of cvInput().
CvInputStep == lastCall'.op = "cvInput" /\ vars' # vars

\* C9: cvInput(o, p) sets targetYaw to currentYaw + clamp(o, -2*pi, 2*pi)
\* and targetPitch to currentPitch + clamp(p, -2*pi, 2*pi), whatever the
\* targets were; a cvInput() call that repeats the call before it leaves
\* both targets as they were.
C9_VisionRelativity ==
    [][CvInputStep =>
          /\ targetYaw' = currentYaw +
                 limitVal(lastCall'.yawInput, -M_TWOPI, M_TWOPI)
          /\ targetPitch' = currentPitch +
                 limitVal(lastCall'.pitchInput, -M_TWOPI, M_TWOPI)
          /\ currentYaw' = currentYaw /\ currentPitch' = currentPitch
          /\ (lastCall.op = "cvInput"
              /\ lastCall.yawInput = lastCall'.yawInput
              /\ lastCall.pitchInput = lastCall'.pitchInput)
                 => Targets' = Targets]_vars

\* The same out-of-range cvInput() twice in a row: the offset was clamped.
C9_Witness ==
    /\ lastCall.op = "cvInput" /\ prevKind = "same"
    /\ lastCall.yawInput > M_TWOPI
    /\ targetYaw = currentYaw + M_TWOPI
    /\ ~lastCall.moved

\* C10: once initialize() has run, no call changes startingYaw or
\* startingPitch.
C10_CalibrationWrittenOnce ==
    [][Running =>
          (startingYaw' = startingYaw /\ startingPitch' = startingPitch)]_vars

\* Calls after initialize() have moved the current yaw angle and the yaw
\* target away from the calibration reference, by a refresh() without input.
C10_Witness ==
    /\ Running /\ lastCall.op = "refresh" /\ ~inputsFound
    /\ currentYaw # startingYaw
    /\ targetYaw = currentYaw

\* C11: inputsFound is true exactly when controllerInput() or cvInput() has
\* been called since the most recent noInputs() (since construction if
\* noInputs() was never called); so it is false after initialize() until
\* the first input, and refresh() does not change it.
C11_ActiveInputFlag == inputsFound = inputSinceNoInputs

\* An input has come back after noInputs() cleared the flag.
C11_Witness ==
    /\ lastCall.op \in {"controllerInput", "cvInput"}
    /\ prevKind = "noInputs"
    /\ inputsFound /\ inputSinceNoInputs

\* C12: after a refresh() whose yaw loop ran on a wrap-corrected yaw error
\* of magnitude below YAW_MINIMUM_RADS, the yaw motor has been sent exactly
\* zero in that call, zero is its last commanded value, and the yaw speed
\* controller was not run.
C12_YawDeadZone ==
    LET yawError == WrapYawError(targetYaw - currentYaw)
    IN  (lastCall.op = "refresh" /\ lastCall.yaw.ran
            /\ Abs(yawError) < YAW_MINIMUM_RADS)
        => /\ lastCall.yaw.sent = Some(0)
           /\ yawDesiredOutput = 0
           /\ ~lastCall.yaw.pidRan
           /\ lastCall.yaw.pid = None

\* The yaw loop has run on an error that is inside the dead-zone and is
\* not zero.
C12_Witness ==
    /\ lastCall.op = "refresh" /\ lastCall.yaw.ran
    /\ WrapYawError(targetYaw - currentYaw) = 1
    /\ lastCall.yaw.sent = Some(0)

\* C13: after a refresh() in which an axis's loop ran and the command it
\* computed fell inside the output dead-band (below MIN_YAW_SPEED for yaw,
\* below MIN_PITCH_SPEED for pitch, so the output field is zero), the value
\* last commanded to that axis's motor is zero.
C13_DeadBandZeroCommand ==
    lastCall.op = "refresh"
    => /\ (lastCall.yaw.pidRan /\ lastCall.yaw.output = Some(0))
          => yawDesiredOutput = 0
       /\ (lastCall.pitch.pidRan /\ lastCall.pitch.output = Some(0))
          => pitchDesiredOutput = 0

\* C14: right after initialize() both motors have been commanded zero and,
\* on each axis, the starting, current and target angles all equal
\* 2*pi * e / ENC_RESOLUTION for the encoder value e read in that call.  A
\* yaw encoder at half the resolution gives startingYaw = pi, and a
\* cvInput(d, 0) made next gives targetYaw = pi + d with the pitch target
\* still on its starting angle.
C14_InitializePose ==
    /\ lastCall.op = "initialize"
       => /\ lastCall.yaw.sent = Some(0) /\ yawDesiredOutput = 0
          /\ lastCall.pitch.sent = Some(0) /\ pitchDesiredOutput = 0
          /\ lastCall.yaw.encoder \in 0 .. (ENC_RESOLUTION - 1)
          /\ lastCall.pitch.encoder \in 0 .. (ENC_RESOLUTION - 1)
          /\ ENC_RESOLUTION * startingYaw = M_TWOPI * lastCall.yaw.encoder
          /\ ENC_RESOLUTION * startingPitch = M_TWOPI * lastCall.pitch.encoder
          /\ currentYaw = startingYaw /\ targetYaw = startingYaw
          /\ currentPitch = startingPitch /\ targetPitch = startingPitch
          /\ (2 * lastCall.yaw.encoder = ENC_RESOLUTION) => startingYaw = M_PI
    /\ (lastCall.op = "cvInput" /\ prevKind = "initialize"
            /\ startingYaw = M_PI /\ lastCall.pitchInput = 0
            /\ Abs(lastCall.yawInput) <= M_TWOPI)
       => /\ targetYaw = M_PI + lastCall.yawInput
          /\ targetPitch = startingPitch

\* initialize() has read the yaw encoder at half its resolution and a
\* cvInput() with a small yaw offset has followed it.
C14_Witness ==
    /\ lastCall.op = "cvInput" /\ prevKind = "initialize"
    /\ startingYaw = M_PI /\ currentYaw = M_PI
    /\ lastCall.yawInput = 1 /\ lastCall.pitchInput = 0
    /\ targetYaw = M_PI + 1

\* C15: wrappedEncoderValueToRadians maps every encoder value e of
\* [0, ENC_RESOLUTION) to 2*pi * e / ENC_RESOLUTION, a value of [0, 2*pi),
\* strictly increasing in e; every call that read an encoder left that
\* value in the current angle, and once initialize() has run currentYaw and
\* currentPitch are in [0, 2*pi).
C15_EncoderConversion ==
    /\ \A e \in 0 .. (ENC_RESOLUTION - 1) :
          /\ ENC_RESOLUTION * wrappedEncoderValueToRadians(e) = M_TWOPI * e
          /\ 0 <= wrappedEncoderValueToRadians(e)
          /\ wrappedEncoderValueToRadians(e) < M_TWOPI
          /\ \A f \in 0 .. (ENC_RESOLUTION - 1) :
                e < f => wrappedEncoderValueToRadians(e)
                            < wrappedEncoderValueToRadians(f)
    /\ lastCall.yaw.encoder # NotRead
       => ENC_RESOLUTION * currentYaw = M_TWOPI * lastCall.yaw.encoder
    /\ lastCall.pitch.encoder # NotRead
       => ENC_RESOLUTION * currentPitch = M_TWOPI * lastCall.pitch.encoder
    /\ Running => /\ 0 <= currentYaw /\ currentYaw < M_TWOPI
                  /\ 0 <= currentPitch /\ currentPitch < M_TWOPI

\* refresh() has read the largest yaw encoder value after a smaller one.
C15_Witness ==
    /\ lastCall.op = "refresh"
    /\ lastCall.yaw.encoder = ENC_RESOLUTION - 1
    /\ ENC_RESOLUTION * currentYaw = M_TWOPI * (ENC_RESOLUTION - 1)
    /\ startingYaw < currentYaw

\* C16: after a refresh() with input and the yaw motor online in which the
\* yaw error was at or beyond YAW_MINIMUM_RADS and the clamped output of the
\* speed controller had magnitude MIN_YAW_SPEED or more, the yaw motor has
\* been commanded with that clamped output.
C16_YawCommandSent ==
    (lastCall.op = "refresh" /\ lastCall.yawOnline /\ lastCall.yaw.pidRan
        /\ Abs(lastCall.yaw.error[1]) >= YAW_MINIMUM_RADS
        /\ Abs(limitVal(lastCall.yaw.pid[1], -MAX_YAW_SPEED, MAX_YAW_SPEED))
              >= MIN_YAW_SPEED)
    => LET limited ==
               limitVal(lastCall.yaw.pid[1], -MAX_YAW_SPEED, MAX_YAW_SPEED)
       IN  /\ lastCall.yaw.sent = Some(limited)
           /\ yawDesiredOutput = limited

\* C17: after every refresh(), with or without input, the current angle of
\* each axis whose motor was online is the conversion of an encoder value
\* read in that call; so after a refresh() without input the targets are
\* the angles measured in that same call.
C17_SenseEveryCycle ==
    lastCall.op = "refresh"
    => /\ lastCall.yawOnline
          => /\ lastCall.yaw.encoder # NotRead
             /\ currentYaw =
                    wrappedEncoderValueToRadians(lastCall.yaw.encoder)
       /\ lastCall.pitchOnline
          => /\ lastCall.pitch.encoder # NotRead
             /\ currentPitch =
                    wrappedEncoderValueToRadians(lastCall.pitch.encoder)
       /\ (~inputsFound /\ lastCall.yawOnline /\ lastCall.pitchOnline)
          => /\ targetYaw =
                    wrappedEncoderValueToRadians(lastCall.yaw.encoder)
             /\ targetPitch =
                    wrappedEncoderValueToRadians(lastCall.pitch.encoder)

\* The gravity term and the clamped controller output of the pitch loop of
\* the last call.
PitchGravityTerm == gravityCompensation(currentPitch)

PitchClamped ==
    limitVal(lastCall.pitch.pid[1], -MAX_PITCH_SPEED, MAX_PITCH_SPEED)

\* C18 as stated: every value a refresh() sent to the pitch motor is the
\* clamped controller output plus the gravity term and has magnitude
\* MIN_PITCH_SPEED or more, whatever the pitch error.
C18_Original ==
    (lastCall.op = "refresh" /\ lastCall.pitch.sent # None)
    => /\ lastCall.pitch.sent[1] = PitchClamped + PitchGravityTerm
       /\ Abs(lastCall.pitch.sent[1]) >= MIN_PITCH_SPEED

\* C18: every value a refresh() sent to the pitch motor has magnitude
\* MIN_PITCH_SPEED or more; it is the clamped controller output plus the
\* gravity term when the pitch error is at or beyond PITCH_MINIMUM_RADS, and
\* the gravity term alone when the error is inside PITCH_MINIMUM_RADS.
C18_PitchCommandValue ==
    (lastCall.op = "refresh" /\ lastCall.pitch.sent # None)
    => /\ Abs(lastCall.pitch.sent[1]) >= MIN_PITCH_SPEED
       /\ pitchDesiredOutput = lastCall.pitch.sent[1]
       /\ lastCall.pitch.sent[1] =
              IF Abs(targetPitch - currentPitch) < PITCH_MINIMUM_RADS
                 THEN PitchGravityTerm
                 ELSE PitchClamped + PitchGravityTerm

\* Inside the pitch dead-zone the motor has been sent the gravity term
\* while the controller's output was not zero.
C18_Witness ==
    /\ lastCall.op = "refresh" /\ lastCall.pitch.sent # None
    /\ Abs(targetPitch - currentPitch) < PITCH_MINIMUM_RADS
    /\ PitchClamped # 0
    /\ lastCall.pitch.sent[1] = PitchGravityTerm

\* C19: after every refresh() the yaw indicator (LED A) is lit exactly when
\* the yaw motor reported offline in that call and the pitch indicator
\* (LED H) exactly when the pitch motor did, with or without input and
\* whatever the other axis reported.
C19_IndicatorsFollowOffline ==
    lastCall.op = "refresh"
    => /\ ledA = ~lastCall.yawOnline
       /\ ledH = ~lastCall.pitchOnline

\* Without input, after the loops had measured a speed, a refresh() has
\* found the yaw motor offline and the pitch motor online.
C19_Witness ==
    /\ lastCall.op = "refresh" /\ prevKind = "other"
    /\ ~inputsFound
    /\ ~lastCall.yawOnline /\ lastCall.pitchOnline
    /\ ledA /\ ~ledH
    /\ currentYawMotorSpeed # 0

\* C20: a refresh() made while inputsFound is false sends nothing to either
\* motor, reads no encoder and runs neither speed controller; it leaves
\* the current angles, the measured speeds, the motors' last commanded
\* values, the starting angles and inputsFound as they were, and sets each
\* target to the current angle of its axis.
C20_NoInputRefreshFrame ==
    [][(RefreshStep /\ ~inputsFound)
       => /\ lastCall'.yaw.sent = None /\ lastCall'.pitch.sent = None
          /\ ~lastCall'.yaw.pidRan /\ ~lastCall'.pitch.pidRan
          /\ ~lastCall'.yaw.ran /\ ~lastCall'.pitch.ran
          /\ lastCall'.yaw.encoder = NotRead
          /\ lastCall'.pitch.encoder = NotRead
          /\ UNCHANGED <<currentYaw, currentPitch, currentYawMotorSpeed,
                         currentPitchMotorSpeed, yawDesiredOutput,
                         pitchDesiredOutput, startingYaw, startingPitch,
                         inputsFound, phase>>
          /\ targetYaw' = currentYaw /\ targetPitch' = currentPitch]_vars

\* A refresh() without input has run with both motors online after the
\* loops had measured a speed and the targets had moved off the current
\* angles.
C20_Witness ==
    /\ lastCall.op = "refresh" /\ ~inputsFound
    /\ lastCall.yawOnline /\ lastCall.pitchOnline
    /\ lastCall.moved
    /\ currentYawMotorSpeed # 0
    /\ targetYaw = currentYaw /\ targetPitch = currentPitch

====
